---------------------------- MODULE Spec2Model ----------------------------
(***************************************************************************)
(* The career-coach agent of fractional.quest: the session state            *)
(* (CareerCoachState), the tools an orchestrator invokes against it         *)
(* (career_agent.py), the job store accessor (db.py) and the match scorer.  *)
(*                                                                         *)
(* Conventions.  A Python str is a sequence of one-character strings, so    *)
(* that lower(), upper(), "in" and ILIKE are computed, not assumed.  An     *)
(* Optional value is << >> (None) or << v >>.  A float score is an integer  *)
(* number of hundredths (0.5 is 50).                                        *)
(***************************************************************************)
EXTENDS Integers, Sequences, FiniteSets, TLC

VARIABLES state, inflight, last, ncalls, probe

vars == <<state, inflight, last, ncalls, probe>>

-----------------------------------------------------------------------------
(* Optional values *)

None == << >>

Some(v) == << v >>

IsNone(o) == o = << >>

Val(o) == o[1]

\* Python truthiness of an Optional[str] / Optional[list] / Optional[int] argument
TruthySeq(o) == (~IsNone(o)) /\ Val(o) # << >>

TruthyInt(o) == (~IsNone(o)) /\ Val(o) # 0

\* the same for a str kept as an opaque tag (a name, a preference)
TruthyStr(o) == (~IsNone(o)) /\ Val(o) # ""

Min(a, b) == IF a < b THEN a ELSE b

-----------------------------------------------------------------------------
(* Strings *)

LowerChar(c) ==
    CASE c = "A" -> "a" [] c = "B" -> "b" [] c = "C" -> "c" [] c = "D" -> "d"
      [] c = "E" -> "e" [] c = "F" -> "f" [] c = "G" -> "g" [] c = "H" -> "h"
      [] c = "I" -> "i" [] c = "J" -> "j" [] c = "K" -> "k" [] c = "L" -> "l"
      [] c = "M" -> "m" [] c = "N" -> "n" [] c = "O" -> "o" [] c = "P" -> "p"
      [] c = "Q" -> "q" [] c = "R" -> "r" [] c = "S" -> "s" [] c = "T" -> "t"
      [] c = "U" -> "u" [] c = "V" -> "v" [] c = "W" -> "w" [] c = "X" -> "x"
      [] c = "Y" -> "y" [] c = "Z" -> "z"
      [] OTHER -> c

UpperChar(c) ==
    CASE c = "a" -> "A" [] c = "b" -> "B" [] c = "c" -> "C" [] c = "d" -> "D"
      [] c = "e" -> "E" [] c = "f" -> "F" [] c = "g" -> "G" [] c = "h" -> "H"
      [] c = "i" -> "I" [] c = "j" -> "J" [] c = "k" -> "K" [] c = "l" -> "L"
      [] c = "m" -> "M" [] c = "n" -> "N" [] c = "o" -> "O" [] c = "p" -> "P"
      [] c = "q" -> "Q" [] c = "r" -> "R" [] c = "s" -> "S" [] c = "t" -> "T"
      [] c = "u" -> "U" [] c = "v" -> "V" [] c = "w" -> "W" [] c = "x" -> "X"
      [] c = "y" -> "Y" [] c = "z" -> "Z"
      [] OTHER -> c

\* str.lower()
Lower(s) == [i \in 1..Len(s) |-> LowerChar(s[i])]

\* str.upper()
Upper(s) == [i \in 1..Len(s) |-> UpperChar(s[i])]

\* Python's  sub in s  on strings
Contains(sub, s) ==
    \E i \in 0..(Len(s) - Len(sub)) :
        \A j \in 1..Len(sub) : s[i + j] = sub[j]

(* String literals used by the code and by the inputs *)

S_CFO == <<"C", "F", "O">>

S_cfo == <<"c", "f", "o">>

S_CMO == <<"C", "M", "O">>

S_xyz == <<"x", "y", "z">>

S_Budgeting == <<"B", "u", "d", "g", "e", "t", "i", "n", "g">>

S_budgeting == <<"b", "u", "d", "g", "e", "t", "i", "n", "g">>

S_Tax == <<"T", "a", "x">>

S_London == <<"L", "o", "n", "d", "o", "n">>

S_london == <<"l", "o", "n", "d", "o", "n">>

S_LondonUK == <<"L", "o", "n", "d", "o", "n", ",", " ", "U", "K">>

S_York == <<"Y", "o", "r", "k">>

S_FractionalCFO == <<"F", "r", "a", "c", "t", "i", "o", "n", "a", "l", " ", "C", "F", "O">>

S_InterimFD == <<"I", "n", "t", "e", "r", "i", "m", " ", "F", "D">>

S_cmoLead == <<"c", "m", "o", " ", "l", "e", "a", "d">>

S_anyRole == <<"a", "n", "y", " ", "r", "o", "l", "e">>

S_in == <<" ", "i", "n", " ">>

S_anyLocation == <<"a", "n", "y", " ", "l", "o", "c", "a", "t", "i", "o", "n">>

-----------------------------------------------------------------------------
(* models.py *)

OnboardingFinalStep == 5

JobPreferences ==
    [target_roles |-> << >>, locations |-> << >>, remote_preference |-> None,
     day_rate_min |-> None, day_rate_max |-> None, industries |-> << >>,
     availability_days_per_week |-> None]

UserProfile ==
    [user_id |-> "anonymous", name |-> None, email |-> None,
     skills |-> << >>, experiences |-> << >>, preferences |-> None,
     onboarding_complete |-> FALSE, onboarding_step |-> 0]

CareerCoachState ==
    [user_profile |-> UserProfile, job_matches |-> << >>,
     onboarding_step |-> 0, onboarding_complete |-> FALSE,
     show_jobs_panel |-> FALSE, show_profile_panel |-> FALSE,
     show_skills_graph |-> FALSE,
     last_search_query |-> None, last_search_role |-> None,
     last_search_location |-> None, tool_logs |-> << >>]

-----------------------------------------------------------------------------
(* db.py *)

Ok(v) == [ok |-> TRUE, value |-> v]

Raise(e) == [ok |-> FALSE, exc |-> e]

\* PostgreSQL  s LIKE p : % is any run of characters, _ any one character
RECURSIVE LikeMatch(_, _)
LikeMatch(p, s) ==
    IF p = << >> THEN s = << >>
    ELSE IF Head(p) = "%"
    THEN LikeMatch(Tail(p), s) \/ (s # << >> /\ LikeMatch(p, Tail(s)))
    ELSE /\ s # << >>
         /\ (Head(p) = "_" \/ Head(p) = Head(s))
         /\ LikeMatch(Tail(p), Tail(s))

\* column ILIKE p , NULL (no row selected) when the column is NULL
ILike(column, p) == (~IsNone(column)) /\ LikeMatch(Lower(p), Lower(Val(column)))

\* f"%{p}%"
Percent(p) == <<"%">> \o p \o <<"%">>

\* role_patterns.get(key, default)
role_patterns(key, default) ==
    CASE key = <<"C", "F", "O">> ->
           << <<"C", "F", "O">>,
              <<"C", "h", "i", "e", "f", " ", "F", "i", "n", "a", "n", "c", "i", "a", "l">>,
              <<"F", "i", "n", "a", "n", "c", "e", " ", "D", "i", "r", "e", "c", "t", "o", "r">>,
              <<"F", "D">> >>
      [] key = <<"C", "M", "O">> ->
           << <<"C", "M", "O">>,
              <<"C", "h", "i", "e", "f", " ", "M", "a", "r", "k", "e", "t", "i", "n", "g">>,
              <<"M", "a", "r", "k", "e", "t", "i", "n", "g", " ", "D", "i", "r", "e", "c", "t", "o", "r">>,
              <<"V", "P", " ", "M", "a", "r", "k", "e", "t", "i", "n", "g">> >>
      [] key = <<"C", "T", "O">> ->
           << <<"C", "T", "O">>,
              <<"C", "h", "i", "e", "f", " ", "T", "e", "c", "h", "n", "o", "l", "o", "g", "y">>,
              <<"T", "e", "c", "h", " ", "D", "i", "r", "e", "c", "t", "o", "r">>,
              <<"V", "P", " ", "E", "n", "g", "i", "n", "e", "e", "r", "i", "n", "g">> >>
      [] key = <<"C", "O", "O">> ->
           << <<"C", "O", "O">>,
              <<"C", "h", "i", "e", "f", " ", "O", "p", "e", "r", "a", "t", "i", "n", "g">>,
              <<"O", "p", "e", "r", "a", "t", "i", "o", "n", "s", " ", "D", "i", "r", "e", "c", "t", "o", "r">> >>
      [] key = <<"C", "H", "R", "O">> ->
           << <<"C", "H", "R", "O">>,
              <<"C", "h", "i", "e", "f", " ", "H", "R">>,
              <<"H", "R", " ", "D", "i", "r", "e", "c", "t", "o", "r">>,
              <<"P", "e", "o", "p", "l", "e", " ", "D", "i", "r", "e", "c", "t", "o", "r">>,
              <<"C", "h", "i", "e", "f", " ", "P", "e", "o", "p", "l", "e">> >>
      [] key = <<"C", "R", "O">> ->
           << <<"C", "R", "O">>,
              <<"C", "h", "i", "e", "f", " ", "R", "e", "v", "e", "n", "u", "e">>,
              <<"R", "e", "v", "e", "n", "u", "e", " ", "D", "i", "r", "e", "c", "t", "o", "r">>,
              <<"S", "a", "l", "e", "s", " ", "D", "i", "r", "e", "c", "t", "o", "r">> >>
      [] key = <<"C", "I", "S", "O">> ->
           << <<"C", "I", "S", "O">>,
              <<"C", "h", "i", "e", "f", " ", "S", "e", "c", "u", "r", "i", "t", "y">>,
              <<"S", "e", "c", "u", "r", "i", "t", "y", " ", "D", "i", "r", "e", "c", "t", "o", "r">>,
              <<"I", "n", "f", "o", "S", "e", "c">> >>
      [] key = <<"C", "P", "O">> ->
           << <<"C", "P", "O">>,
              <<"C", "h", "i", "e", "f", " ", "P", "r", "o", "d", "u", "c", "t">>,
              <<"P", "r", "o", "d", "u", "c", "t", " ", "D", "i", "r", "e", "c", "t", "o", "r">>,
              <<"V", "P", " ", "P", "r", "o", "d", "u", "c", "t">> >>
      [] OTHER -> default

\* the jobs relation: the columns the query selects or filters on
Row(id, title, company, location, is_remote, posted_date, is_active) ==
    [id |-> id, title |-> title, company_name |-> company,
     location |-> location, is_remote |-> is_remote, compensation |-> None,
     url |-> None, posted_date |-> posted_date, is_active |-> is_active]

JobsTable ==
    { Row(1, Some(S_FractionalCFO), Some("Acme"), Some(S_LondonUK),
          Some(TRUE), Some(3), TRUE),
      Row(2, Some(S_InterimFD), Some("Beta"), None,
          Some(FALSE), Some(2), TRUE),
      Row(3, Some(S_CFO), Some("Gone"), Some(S_London),
          Some(TRUE), Some(4), FALSE),
      Row(4, Some(S_cmoLead), Some("Delta"), Some(S_York),
          Some(TRUE), None, TRUE) }

EmptyTable == { }

Stores == {EmptyTable, JobsTable}

\* what the environment does to one query: nothing, DATABASE_URL unset, the
\* connection refused, the query failing on the open connection
Faults == {"none", "no_url", "connect_error", "query_error"}

\* get_db_connection: a connection, or the exception it raises
get_db_connection(fault) ==
    IF fault = "no_url" THEN Raise("ValueError")
    ELSE IF fault = "connect_error" THEN Raise("OperationalError")
    ELSE Ok("conn")

\* the WHERE clause search_jobs_db builds
Selected(row, role, location, remote_only) ==
    /\ row.is_active
    /\ TruthySeq(role) =>
         LET patterns == role_patterns(Upper(Val(role)), <<Val(role)>>)
         IN  \E i \in 1..Len(patterns) : ILike(row.title, Percent(patterns[i]))
    /\ TruthySeq(location) =>
         (ILike(row.location, Percent(Val(location)))
            \/ ILike(row.location, Percent(Val(location))))
    /\ remote_only => row.is_remote = Some(TRUE)

\* ORDER BY posted_date DESC NULLS LAST
Before(r1, r2) ==
    \/ (~IsNone(r1.posted_date)) /\ IsNone(r2.posted_date)
    \/ /\ ~IsNone(r1.posted_date)
       /\ ~IsNone(r2.posted_date)
       /\ Val(r1.posted_date) > Val(r2.posted_date)

RECURSIVE OrderRows(_)
OrderRows(rows) ==
    IF rows = { } THEN << >>
    ELSE LET first == CHOOSE r \in rows : \A o \in rows : ~Before(o, r)
         IN  <<first>> \o OrderRows(rows \ {first})

\* LIMIT n
Limit(rows, n) == SubSeq(rows, 1, Min(n, Len(rows)))

\* dict(zip(columns, row)) with posted_date made a str
JobDict(row) ==
    [id |-> row.id, title |-> row.title, company |-> row.company_name,
     location |-> row.location, remote |-> row.is_remote,
     salary |-> row.compensation, url |-> row.url,
     posted_date |-> IF ~IsNone(row.posted_date)
                     THEN Some([str |-> Val(row.posted_date)])
                     ELSE row.posted_date]

\* the try block of search_jobs_db, entered with an open connection
run_query(role, location, remote_only, limit, fault, table) ==
    IF fault = "query_error" \/ limit < 0
    THEN Raise("DatabaseError")
    ELSE LET rows == OrderRows({r \in table :
                                  Selected(r, role, location, remote_only)})
             kept == Limit(rows, limit)
         IN  Ok([i \in 1..Len(kept) |-> JobDict(kept[i])])

\* search_jobs_db: try / except Exception / finally.  conn is assigned only
\* when get_db_connection returns, and the finally clause reads it.
search_jobs_db(role, location, remote_only, limit, fault, table) ==
    LET c == get_db_connection(fault)
        conn_bound == c.ok
        body == IF c.ok
                THEN run_query(role, location, remote_only, limit, fault, table)
                ELSE c
        returned == IF body.ok THEN body.value ELSE << >>
    IN  IF conn_bound THEN Ok(returned) ELSE Raise("UnboundLocalError")

-----------------------------------------------------------------------------
(* career_agent.py: the match scorer *)

BaseScore == 50

RoleBonus == 20

LocationBonus == 15

RemoteBonus == 15

MaxScore == 100

\* for x in xs: if x.lower() in text: ... break
AnyLowerIn(xs, text) ==
    \E i \in 1..Len(xs) : Contains(Lower(xs[i]), text)

calculate_match_score(job, profile) ==
    IF IsNone(profile.preferences) THEN Ok(BaseScore)
    ELSE IF IsNone(job.title) \/ IsNone(job.location)
    THEN Raise("AttributeError")
    ELSE
    LET prefs == Val(profile.preferences)
        job_title == Lower(Val(job.title))
        job_location == Lower(Val(job.location))
        s1 == BaseScore
              + (IF AnyLowerIn(prefs.target_roles, job_title)
                 THEN RoleBonus ELSE 0)
        s2 == s1 + (IF AnyLowerIn(prefs.locations, job_location)
                    THEN LocationBonus ELSE 0)
        s3 == s2 + (IF prefs.remote_preference = Some("remote")
                       /\ job.remote = Some(TRUE)
                    THEN RemoteBonus ELSE 0)
    IN  Ok(Min(s3, MaxScore))

\* the first x of xs with x.lower() in text, as a one-element list, or << >>
FirstLowerIn(xs, text) ==
    LET I == {i \in 1..Len(xs) : Contains(Lower(xs[i]), text)}
    IN  IF I = { } THEN << >>
        ELSE << xs[CHOOSE i \in I : \A j \in I : i <= j] >>

get_match_reasons(job, profile) ==
    IF IsNone(profile.preferences)
    THEN Ok(<< [reason |-> "Matches your search criteria"] >>)
    ELSE
    LET prefs == Val(profile.preferences) IN
    IF IsNone(job.title) THEN Raise("AttributeError")
    ELSE IF IsNone(job.location) /\ prefs.locations # << >>
    THEN Raise("AttributeError")
    ELSE
    LET role == FirstLowerIn(prefs.target_roles, Lower(Val(job.title)))
        r1 == IF role # << >>
              THEN << [reason |-> "Matches your target role: ", of |-> role[1]] >>
              ELSE << >>
        r2 == IF prefs.locations # << >>
                 /\ AnyLowerIn(prefs.locations, Lower(Val(job.location)))
              THEN << [reason |-> "Located in ", of |-> Val(job.location)] >>
              ELSE << >>
        r3 == IF prefs.remote_preference = Some("remote")
                 /\ job.remote = Some(TRUE)
              THEN << [reason |-> "Remote opportunity"] >>
              ELSE << >>
        reasons == r1 \o r2 \o r3
    IN  Ok(IF reasons = << >>
           THEN << [reason |-> "Relevant fractional executive opportunity"] >>
           ELSE reasons)

-----------------------------------------------------------------------------
(* Bounds and inputs *)

\* tool invocations the orchestrator issues in one run
MaxCalls == 2

StepInputs == {-1, 0, 2, 4, 5, 7}

VisualizationInputs == {"jobs", "profile", "skills", "unknown"}

NoArgs ==
    [name |-> None, target_roles |-> None, locations |-> None,
     remote_preference |-> None, day_rate_min |-> None, day_rate_max |-> None,
     availability_days |-> None]

\* update_user_profile calls: nothing, a name, the preferences of the spec's
\* example, other truthy values for them, and every argument falsy but not null
ProfileInputs ==
    { NoArgs,
      [NoArgs EXCEPT !.name = Some("Alex")],
      [NoArgs EXCEPT !.target_roles = Some(<<S_CFO>>),
                     !.locations = Some(<<S_London>>),
                     !.remote_preference = Some("remote")],
      [NoArgs EXCEPT !.name = Some("Sam"),
                     !.target_roles = Some(<<S_xyz, S_cfo>>),
                     !.locations = Some(<<S_York>>),
                     !.remote_preference = Some("hybrid"),
                     !.day_rate_min = Some(600), !.day_rate_max = Some(700),
                     !.availability_days = Some(2)],
      [NoArgs EXCEPT !.day_rate_min = Some(500), !.day_rate_max = Some(900),
                     !.availability_days = Some(3)],
      [NoArgs EXCEPT !.availability_days = Some(9)],
      [name |-> Some(""), target_roles |-> Some(<< >>),
       locations |-> Some(<< >>), remote_preference |-> Some(""),
       day_rate_min |-> Some(0), day_rate_max |-> Some(0),
       availability_days |-> Some(0)] }

SkillInputs ==
    { [skill_name |-> S_Budgeting, category |-> "finance", level |-> "expert",
       years_experience |-> Some(10)],
      [skill_name |-> S_budgeting, category |-> "strategy",
       level |-> "intermediate", years_experience |-> None],
      [skill_name |-> S_Tax, category |-> "finance", level |-> "advanced",
       years_experience |-> Some(3)],
      [skill_name |-> S_Tax, category |-> "finance", level |-> "guru",
       years_experience |-> None] }

ExperienceInputs ==
    { [company |-> "Acme", role |-> "CFO", start_year |-> 2015,
       end_year |-> None, is_executive |-> TRUE,
       achievements |-> Some(<<"IPO">>)],
      [company |-> "Beta", role |-> "Analyst", start_year |-> 2010,
       end_year |-> Some(2015), is_executive |-> FALSE,
       achievements |-> None] }

SearchArgs(role, location, remote_only, limit) ==
    [role |-> role, location |-> location, remote_only |-> remote_only,
     limit |-> limit]

DefaultLimit == 5

SearchInputs ==
    { SearchArgs(None, None, FALSE, DefaultLimit),
      SearchArgs(Some(S_CMO), None, FALSE, DefaultLimit),
      SearchArgs(Some(S_cfo), None, FALSE, DefaultLimit),
      SearchArgs(Some(S_cfo), Some(S_london), TRUE, 1),
      SearchArgs(Some(S_xyz), None, FALSE, DefaultLimit),
      SearchArgs(None, Some(S_York), TRUE, -1) }

\* the scorer's inputs: job records with each of title, location and remote
\* present or null, and profiles without and with preferences
ProbeJobs ==
    { [id |-> 7, title |-> title, company |-> Some("Acme"),
       location |-> location, remote |-> remote, salary |-> None,
       url |-> None, posted_date |-> None] :
         title \in {None, Some(S_FractionalCFO), Some(S_cmoLead)},
         location \in {None, Some(S_LondonUK), Some(S_York)},
         remote \in {None, Some(TRUE), Some(FALSE)} }

ProbePreferences ==
    { [JobPreferences EXCEPT !.target_roles = roles, !.locations = locations,
                             !.remote_preference = remote_preference] :
         roles \in {<< >>, <<S_cfo>>, <<S_xyz, S_CMO, S_CFO>>},
         locations \in {<< >>, <<S_london>>, <<S_York, S_London>>},
         remote_preference \in {None, Some("remote"), Some("hybrid")} }

ProbeProfiles ==
    {UserProfile}
      \cup {[UserProfile EXCEPT !.preferences = Some(q)] : q \in ProbePreferences}

NoCall == [tool |-> "none"]

NoProbe == [pc |-> "off"]

-----------------------------------------------------------------------------
(* career_agent.py: advance_onboarding *)

\* a variant that only ever moves the step forward
advance_onboarding_forward_only(st, step) ==
    LET target == Min(step, OnboardingFinalStep)
        kept == IF target > st.onboarding_step THEN target
                ELSE st.onboarding_step
        s1 == [st EXCEPT !.onboarding_step = kept,
                         !.user_profile.onboarding_step = kept]
        s2 == IF step >= OnboardingFinalStep
              THEN [s1 EXCEPT !.onboarding_complete = TRUE,
                              !.user_profile.onboarding_complete = TRUE]
              ELSE s1
    IN  [state |-> s2, outcome |-> "returned",
         value |-> [step |-> s2.onboarding_step,
                    complete |-> s2.onboarding_complete]]

\* a variant that moves the session's step and leaves the profile's
advance_onboarding_session_only(st, step) ==
    LET s1 == [st EXCEPT !.onboarding_step = Min(step, OnboardingFinalStep)]
        s3 == IF step >= OnboardingFinalStep
              THEN [s1 EXCEPT !.onboarding_complete = TRUE,
                              !.user_profile.onboarding_complete = TRUE]
              ELSE s1
    IN  [state |-> s3, outcome |-> "returned",
         value |-> [step |-> s3.onboarding_step,
                    complete |-> s3.onboarding_complete]]

\* a variant that recomputes onboarding_complete on every call
advance_onboarding_recomputes_complete(st, step) ==
    LET s1 == [st EXCEPT !.onboarding_step = Min(step, OnboardingFinalStep)]
        s2 == [s1 EXCEPT !.user_profile.onboarding_step = s1.onboarding_step]
        s3 == [s2 EXCEPT !.onboarding_complete = (step >= OnboardingFinalStep),
                         !.user_profile.onboarding_complete =
                             (step >= OnboardingFinalStep)]
    IN  [state |-> s3, outcome |-> "returned",
         value |-> [step |-> s3.onboarding_step,
                    complete |-> s3.onboarding_complete]]

advance_onboarding(st, step) ==
    LET s1 == [st EXCEPT !.onboarding_step = Min(step, OnboardingFinalStep)]
        s2 == [s1 EXCEPT !.user_profile.onboarding_step = s1.onboarding_step]
        s3 == IF step >= OnboardingFinalStep
              THEN [s2 EXCEPT !.onboarding_complete = TRUE,
                              !.user_profile.onboarding_complete = TRUE]
              ELSE s2
    IN  [state |-> s3, outcome |-> "returned",
         value |-> [step |-> s3.onboarding_step,
                    complete |-> s3.onboarding_complete]]

(* career_agent.py: show_visualization *)

\* a variant whose last branch is an else: any other tag shows the skills graph
show_visualization_else_skills(st, visualization_type) ==
    LET s1 == IF visualization_type = "jobs"
              THEN [st EXCEPT !.show_jobs_panel = TRUE]
              ELSE IF visualization_type = "profile"
              THEN [st EXCEPT !.show_profile_panel = TRUE]
              ELSE [st EXCEPT !.show_skills_graph = TRUE]
    IN  [state |-> s1, outcome |-> "returned",
         value |-> [showing |-> visualization_type]]

show_visualization(st, visualization_type) ==
    LET s1 == IF visualization_type = "jobs"
              THEN [st EXCEPT !.show_jobs_panel = TRUE]
              ELSE IF visualization_type = "profile"
              THEN [st EXCEPT !.show_profile_panel = TRUE]
              ELSE IF visualization_type = "skills"
              THEN [st EXCEPT !.show_skills_graph = TRUE]
              ELSE st
    IN  [state |-> s1, outcome |-> "returned",
         value |-> [showing |-> visualization_type]]

(* career_agent.py: update_user_profile *)

update_user_profile(st, a) ==
    LET p0 == st.user_profile
        p1 == IF TruthyStr(a.name) THEN [p0 EXCEPT !.name = a.name] ELSE p0
        q0 == IF IsNone(p1.preferences) THEN JobPreferences
              ELSE Val(p1.preferences)
        q1 == IF TruthySeq(a.target_roles)
              THEN [q0 EXCEPT !.target_roles = Val(a.target_roles)] ELSE q0
        q2 == IF TruthySeq(a.locations)
              THEN [q1 EXCEPT !.locations = Val(a.locations)] ELSE q1
        q3 == IF TruthyStr(a.remote_preference)
              THEN [q2 EXCEPT !.remote_preference = a.remote_preference] ELSE q2
        q4 == IF TruthyInt(a.day_rate_min)
              THEN [q3 EXCEPT !.day_rate_min = a.day_rate_min] ELSE q3
        q5 == IF TruthyInt(a.day_rate_max)
              THEN [q4 EXCEPT !.day_rate_max = a.day_rate_max] ELSE q4
        q6 == IF TruthyInt(a.availability_days)
              THEN [q5 EXCEPT !.availability_days_per_week = a.availability_days]
              ELSE q5
        p2 == [p1 EXCEPT !.preferences = Some(q6)]
    IN  [state |-> [st EXCEPT !.user_profile = p2], outcome |-> "returned",
         value |-> [status |-> "updated",
                    profile_summary |->
                        [name |-> p2.name,
                         target_roles |-> q6.target_roles,
                         locations |-> q6.locations,
                         remote_preference |-> q6.remote_preference]]]

(* models.py: SkillLevel, Skill; career_agent.py: add_skill *)

SkillLevel == {"beginner", "intermediate", "advanced", "expert"}

Skill(name, category, level, years_experience) ==
    [name |-> name, category |-> category, level |-> level,
     years_experience |-> years_experience]

\* a variant that compares the names as they are written
existing_idx_exact(skills, skill_name) ==
    LET I == {i \in 1..Len(skills) : skills[i].name = skill_name}
    IN  IF I = {} THEN 0 ELSE CHOOSE i \in I : \A j \in I : i <= j

\* next((i for i, s in enumerate(skills) if s.name.lower() == name.lower()), None);
\* 0 stands for None, the list being indexed from 1 here
existing_idx(skills, skill_name) ==
    LET I == {i \in 1..Len(skills) : Lower(skills[i].name) = Lower(skill_name)}
    IN  IF I = {} THEN 0 ELSE CHOOSE i \in I : \A j \in I : i <= j

\* a variant that stores the skill whatever its level
add_skill_any_level(st, a) ==
    LET skill == Skill(a.skill_name, a.category, a.level, a.years_experience)
        skills == st.user_profile.skills
        idx == existing_idx(skills, a.skill_name)
        new == IF idx # 0 THEN [skills EXCEPT ![idx] = skill]
               ELSE Append(skills, skill)
    IN  [state |-> [st EXCEPT !.user_profile.skills = new],
         outcome |-> "returned",
         value |-> [status |-> "added", skill |-> skill,
                    total_skills |-> Len(new)]]

add_skill(st, a) ==
    IF a.level \notin SkillLevel
    THEN [state |-> st, outcome |-> "raised", value |-> "ValueError"]
    ELSE
    LET skill == Skill(a.skill_name, a.category, a.level, a.years_experience)
        skills == st.user_profile.skills
        idx == existing_idx(skills, a.skill_name)
        new == IF idx # 0 THEN [skills EXCEPT ![idx] = skill]
               ELSE Append(skills, skill)
    IN  [state |-> [st EXCEPT !.user_profile.skills = new],
         outcome |-> "returned",
         value |-> [status |-> "added", skill |-> skill,
                    total_skills |-> Len(new)]]

(* models.py: WorkExperience; career_agent.py: add_experience *)

add_experience(st, a) ==
    LET experience == [company |-> a.company, role |-> a.role,
                       is_executive |-> a.is_executive,
                       start_year |-> a.start_year, end_year |-> a.end_year,
                       key_achievements |->
                           IF TruthySeq(a.achievements)
                           THEN Val(a.achievements) ELSE << >>]
        new == Append(st.user_profile.experiences, experience)
    IN  [state |-> [st EXCEPT !.user_profile.experiences = new],
         outcome |-> "returned",
         value |-> [status |-> "added", experience |-> experience,
                    total_experiences |-> Len(new)]]

(* models.py: JobMatch; career_agent.py: search_jobs *)

\* JobMatch(...) of search_jobs: its arguments are evaluated first (the score,
\* then the reasons), then the model validates title: str, company: str,
\* remote: bool and 0 <= match_score <= 1
JobMatch(job, profile) ==
    LET score == calculate_match_score(job, profile)
        reasons == get_match_reasons(job, profile)
    IN  IF ~score.ok THEN score
        ELSE IF ~reasons.ok THEN reasons
        ELSE IF \/ IsNone(job.title) \/ IsNone(job.company) \/ IsNone(job.remote)
                \/ score.value < 0 \/ score.value > MaxScore
        THEN Raise("ValidationError")
        ELSE Ok([job_id |-> [str |-> job.id], title |-> Val(job.title),
                 company |-> Val(job.company), location |-> job.location,
                 remote |-> Val(job.remote), match_score |-> score.value,
                 match_reasons |-> reasons.value, missing_skills |-> << >>,
                 day_rate |-> job.salary, url |-> job.url])

\* x or default, for an Optional[str]
OrStr(o, default) == IF TruthySeq(o) THEN Val(o) ELSE default

\* search_jobs up to its await of search_jobs_db
search_jobs_begin(st, a) ==
    [st EXCEPT
       !.last_search_role = a.role,
       !.last_search_location = a.location,
       !.last_search_query =
           Some(OrStr(a.role, S_anyRole) \o S_in
                  \o OrStr(a.location, S_anyLocation)),
       !.tool_logs =
           Append(@, [tool |-> "search_jobs", status |-> "searching",
                      params |-> [role |-> a.role, location |-> a.location,
                                  remote_only |-> a.remote_only],
                      results_count |-> None])]

\* search_jobs from the return of search_jobs_db (db) to its own return
search_jobs_finish(st, a, db) ==
    IF ~db.ok
    THEN [state |-> st, outcome |-> "raised", value |-> db.exc]
    ELSE
    LET jobs == db.value
        built == [i \in 1..Len(jobs) |-> JobMatch(jobs[i], st.user_profile)]
        bad == {i \in 1..Len(jobs) : ~built[i].ok}
    IN  IF bad # { }
        THEN [state |-> st, outcome |-> "raised",
              value |-> built[CHOOSE i \in bad : \A j \in bad : i <= j].exc]
        ELSE
        LET matches == [i \in 1..Len(jobs) |-> built[i].value]
            n == Len(st.tool_logs)
            s1 == [st EXCEPT !.job_matches = matches,
                             !.show_jobs_panel = TRUE,
                             !.tool_logs[n].status = "complete",
                             !.tool_logs[n].results_count = Some(Len(matches))]
        IN  [state |-> s1, outcome |-> "returned", value |-> matches]

-----------------------------------------------------------------------------
(* The orchestrator issues one tool call at a time (spec section 5).       *)
(* last is the most recent step of a tool: the tool, its arguments, how    *)
(* the step ended (returned, raised, or awaiting the store), the value,    *)
(* and the state the step started in.                                      *)

Idle == inflight = << >>

CanCall == Idle /\ ncalls < MaxCalls

Init ==
    /\ state = CareerCoachState
    /\ inflight = << >>
    /\ last = NoCall
    /\ ncalls = 0
    /\ probe = NoProbe

AdvanceOnboarding ==
    /\ CanCall
    /\ \E step \in StepInputs :
         LET r == advance_onboarding(state, step) IN
         /\ state' = r.state
         /\ last' = [tool |-> "advance_onboarding", args |-> [step |-> step],
                     outcome |-> r.outcome, value |-> r.value,
                     before |-> state]
    /\ ncalls' = ncalls + 1
    /\ UNCHANGED <<inflight, probe>>

ShowVisualization ==
    /\ CanCall
    /\ \E visualization_type \in VisualizationInputs :
         LET r == show_visualization(state, visualization_type) IN
         /\ state' = r.state
         /\ last' = [tool |-> "show_visualization",
                     args |-> [visualization_type |-> visualization_type],
                     outcome |-> r.outcome, value |-> r.value,
                     before |-> state]
    /\ ncalls' = ncalls + 1
    /\ UNCHANGED <<inflight, probe>>

UpdateUserProfile ==
    /\ CanCall
    /\ \E a \in ProfileInputs :
         LET r == update_user_profile(state, a) IN
         /\ state' = r.state
         /\ last' = [tool |-> "update_user_profile", args |-> a,
                     outcome |-> r.outcome, value |-> r.value,
                     before |-> state]
    /\ ncalls' = ncalls + 1
    /\ UNCHANGED <<inflight, probe>>

AddSkill ==
    /\ CanCall
    /\ \E a \in SkillInputs :
         LET r == add_skill(state, a) IN
         /\ state' = r.state
         /\ last' = [tool |-> "add_skill", args |-> a,
                     outcome |-> r.outcome, value |-> r.value,
                     before |-> state]
    /\ ncalls' = ncalls + 1
    /\ UNCHANGED <<inflight, probe>>

AddExperience ==
    /\ CanCall
    /\ \E a \in ExperienceInputs :
         LET r == add_experience(state, a) IN
         /\ state' = r.state
         /\ last' = [tool |-> "add_experience", args |-> a,
                     outcome |-> r.outcome, value |-> r.value,
                     before |-> state]
    /\ ncalls' = ncalls + 1
    /\ UNCHANGED <<inflight, probe>>

\* search_jobs runs to its await; the invocation is then suspended
SearchJobsBegin ==
    /\ CanCall
    /\ \E a \in SearchInputs :
         /\ state' = search_jobs_begin(state, a)
         /\ inflight' = Append(inflight, a)
         /\ last' = [tool |-> "search_jobs", args |-> a,
                     outcome |-> "awaiting", before |-> state]
    /\ ncalls' = ncalls + 1
    /\ UNCHANGED probe

Remove(seq, i) == SubSeq(seq, 1, i - 1) \o SubSeq(seq, i + 1, Len(seq))

\* the store answers a suspended invocation, which runs to its end
SearchJobsFinish ==
    /\ \E i \in DOMAIN inflight, fault \in Faults, table \in Stores :
         LET a == inflight[i]
             db == search_jobs_db(a.role, a.location, a.remote_only, a.limit,
                                  fault, table)
             r == search_jobs_finish(state, a, db)
         IN  /\ state' = r.state
             /\ inflight' = Remove(inflight, i)
             /\ last' = [tool |-> "search_jobs", args |-> a,
                         outcome |-> r.outcome, value |-> r.value,
                         before |-> state, fault |-> fault, db |-> db]
    /\ UNCHANGED <<ncalls, probe>>

Next ==
    \/ AdvanceOnboarding
    \/ ShowVisualization
    \/ UpdateUserProfile
    \/ AddSkill
    \/ AddExperience
    \/ SearchJobsBegin
    \/ SearchJobsFinish

Spec == Init /\ [][Next]_vars

-----------------------------------------------------------------------------
(* The scorer on its own: the two pure functions applied to each input *)

InitScore ==
    /\ state = CareerCoachState
    /\ inflight = << >>
    /\ last = NoCall
    /\ ncalls = 0
    /\ \E job \in ProbeJobs, profile \in ProbeProfiles :
         probe = [pc |-> "ready", job |-> job, profile |-> profile]

CalculateMatchScore ==
    /\ probe.pc = "ready"
    /\ probe' = [pc |-> "scored", job |-> probe.job, profile |-> probe.profile,
                 score |-> calculate_match_score(probe.job, probe.profile)]
    /\ UNCHANGED <<state, inflight, last, ncalls>>

GetMatchReasons ==
    /\ probe.pc = "scored"
    /\ probe' = [pc |-> "done", job |-> probe.job, profile |-> probe.profile,
                 score |-> probe.score,
                 reasons |-> get_match_reasons(probe.job, probe.profile)]
    /\ UNCHANGED <<state, inflight, last, ncalls>>

NextScore ==
    \/ CalculateMatchScore
    \/ GetMatchReasons

SpecScore == InitScore /\ [][NextScore]_vars

-----------------------------------------------------------------------------
(* Properties *)

Skills == state.user_profile.skills

Ended(tool) == last.tool = tool /\ last.outcome \in {"returned", "raised"}

\* C1: after any sequence of advance_onboarding calls, onboarding_step on the
\* session and on the nested profile is within [0,5] (the bounds models.py
\* declares with ge=0, le=5).
C1_StepWithinBounds ==
    /\ state.onboarding_step \in 0..OnboardingFinalStep
    /\ state.user_profile.onboarding_step \in 0..OnboardingFinalStep

\* C2: calculate_match_score returns a score s with 0.0 <= s <= 1.0 for every
\* job record (title, location, remote present or null) and every profile; it
\* never fails to produce one.
C2_ScoreAlwaysProduced ==
    probe.pc \in {"scored", "done"} =>
        /\ probe.score.ok
        /\ probe.score.value >= 0
        /\ probe.score.value <= MaxScore

\* C3: the skills list holds at most one entry per case-insensitive name, and
\* after add_skill returns exactly one entry carries the added name (compared
\* case-insensitively), with the attributes of that call.
C3_OneSkillPerName ==
    /\ \A i, j \in 1..Len(Skills) :
         Lower(Skills[i].name) = Lower(Skills[j].name) => i = j
    /\ (Ended("add_skill") /\ last.outcome = "returned") =>
         LET same == {i \in 1..Len(Skills) :
                        Lower(Skills[i].name) = Lower(last.args.skill_name)}
         IN  /\ Cardinality(same) = 1
             /\ \A i \in same :
                  Skills[i] = [name |-> last.args.skill_name,
                               category |-> last.args.category,
                               level |-> last.args.level,
                               years_experience |-> last.args.years_experience]

\* C3 witness: "budgeting" added to a list that held "Budgeting": one entry,
\* with the second call's name, category, level and years.
C3_Witness ==
    /\ Ended("add_skill")
    /\ last.args.skill_name = S_budgeting
    /\ Len(last.before.user_profile.skills) = 1
    /\ last.before.user_profile.skills[1].name = S_Budgeting
    /\ last.before.user_profile.skills[1].level = "expert"
    /\ Len(Skills) = 1
    /\ Skills[1].name = S_budgeting
    /\ Skills[1].level = "intermediate"

\* C4: on any backing-store failure (the connection cannot be opened, the
\* connection string is missing, or the query fails) search_jobs_db returns
\* an empty list and does not raise.
C4_StoreFailureReturnsEmpty ==
    (Ended("search_jobs") /\ last.fault # "none") =>
        /\ last.db.ok
        /\ last.db.value = << >>

\* C5: every search_jobs invocation appends exactly one tool-log entry, with
\* status "searching"; when the invocation ends it has returned, that entry has
\* status "complete" and results_count equal to the number of matches returned
\* (0 when the store is empty or fails), and no entry is left "searching".
C5_LogEntryCompleted ==
    /\ (last.tool = "search_jobs" /\ last.outcome = "awaiting") =>
         state.tool_logs =
             Append(last.before.tool_logs,
                    [tool |-> "search_jobs", status |-> "searching",
                     params |-> [role |-> last.args.role,
                                 location |-> last.args.location,
                                 remote_only |-> last.args.remote_only],
                     results_count |-> None])
    /\ Ended("search_jobs") =>
         LET n == Len(state.tool_logs) IN
         /\ last.outcome = "returned"
         /\ n = Len(last.before.tool_logs)
         /\ state.tool_logs[n].status = "complete"
         /\ state.tool_logs[n].results_count = Some(Len(last.value))
         /\ (last.fault # "none" \/ last.db = Ok(<< >>)) =>
              state.tool_logs[n].results_count = Some(0)
    /\ Idle =>
         \A i \in 1..Len(state.tool_logs) :
             state.tool_logs[i].status # "searching"

\* the preferences of a profile, the defaults when it has none
PrefsOf(st) ==
    IF IsNone(st.user_profile.preferences) THEN JobPreferences
    ELSE Val(st.user_profile.preferences)

\* C6: update_user_profile overwrites every field whose argument is non-null
\* with the argument (empty and zero values included) and leaves every field
\* whose argument is null untouched.
C6_ProvidedFieldsOverwrite ==
    Ended("update_user_profile") =>
        LET a == last.args
            old == PrefsOf(last.before)
            new == PrefsOf(state)
        IN  /\ state.user_profile.name
                 = IF IsNone(a.name) THEN last.before.user_profile.name
                   ELSE a.name
            /\ new.target_roles
                 = IF IsNone(a.target_roles) THEN old.target_roles
                   ELSE Val(a.target_roles)
            /\ new.locations
                 = IF IsNone(a.locations) THEN old.locations
                   ELSE Val(a.locations)
            /\ new.remote_preference
                 = IF IsNone(a.remote_preference) THEN old.remote_preference
                   ELSE a.remote_preference
            /\ new.day_rate_min
                 = IF IsNone(a.day_rate_min) THEN old.day_rate_min
                   ELSE a.day_rate_min
            /\ new.day_rate_max
                 = IF IsNone(a.day_rate_max) THEN old.day_rate_max
                   ELSE a.day_rate_max
            /\ new.availability_days_per_week
                 = IF IsNone(a.availability_days)
                   THEN old.availability_days_per_week
                   ELSE a.availability_days

C8_VisualizationFrame ==
    Ended("show_visualization") =>
        LET tag == last.args.visualization_type
            b == last.before
        IN  /\ last.outcome = "returned"
            /\ last.value = [showing |-> tag]
            /\ state =
                 CASE tag = "jobs" -> [b EXCEPT !.show_jobs_panel = TRUE]
                   [] tag = "profile" -> [b EXCEPT !.show_profile_panel = TRUE]
                   [] tag = "skills" -> [b EXCEPT !.show_skills_graph = TRUE]
                   [] OTHER -> b

\* C8 witness: an unrecognised tag on a session whose jobs panel is shown and
\* whose other panels are not; the three flags stay as they were.
C8_Witness ==
    /\ Ended("show_visualization")
    /\ last.args.visualization_type = "unknown"
    /\ last.before.show_jobs_panel
    /\ state.show_jobs_panel
    /\ ~state.show_profile_panel
    /\ ~state.show_skills_graph

\* the reference score: 0.5, plus 0.2 when some target role is a
\* case-insensitive substring of the title, 0.15 when some preferred location
\* is one of the location, 0.15 when the preference is "remote" and the job
\* is remote, at most 1.0; a null title or location contains nothing
RoleContributes(job, prefs) ==
    /\ ~IsNone(job.title)
    /\ \E i \in 1..Len(prefs.target_roles) :
         Contains(Lower(prefs.target_roles[i]), Lower(Val(job.title)))

LocationContributes(job, prefs) ==
    /\ ~IsNone(job.location)
    /\ \E i \in 1..Len(prefs.locations) :
         Contains(Lower(prefs.locations[i]), Lower(Val(job.location)))

RemoteContributes(job, prefs) ==
    prefs.remote_preference = Some("remote") /\ job.remote = Some(TRUE)

ReferenceScore(job, profile) ==
    IF IsNone(profile.preferences) THEN 50
    ELSE LET prefs == Val(profile.preferences)
             sum == 50 + (IF RoleContributes(job, prefs) THEN 20 ELSE 0)
                       + (IF LocationContributes(job, prefs) THEN 15 ELSE 0)
                       + (IF RemoteContributes(job, prefs) THEN 15 ELSE 0)
         IN  IF sum > 100 THEN 100 ELSE sum

\* C9: calculate_match_score equals the reference score, for every job and
\* profile; a profile whose preferences are all empty scores 0.5.
C9_ScoreIsReference ==
    probe.pc \in {"scored", "done"} =>
        probe.score = Ok(ReferenceScore(probe.job, probe.profile))

\* C10: for every job and every profile with preferences, get_match_reasons
\* returns the role, location and remote reasons of the conditions that
\* contribute to the score, in that order, or the one fallback reason when
\* none contributes; the list is never empty.
C10_ReasonsMirrorScore ==
    (probe.pc = "done" /\ ~IsNone(probe.profile.preferences)) =>
        LET prefs == Val(probe.profile.preferences)
            kinds == (IF RoleContributes(probe.job, prefs)
                      THEN <<"Matches your target role: ">> ELSE << >>)
                     \o (IF LocationContributes(probe.job, prefs)
                         THEN <<"Located in ">> ELSE << >>)
                     \o (IF RemoteContributes(probe.job, prefs)
                         THEN <<"Remote opportunity">> ELSE << >>)
            want == IF kinds = << >>
                    THEN <<"Relevant fractional executive opportunity">>
                    ELSE kinds
        IN  /\ probe.reasons.ok
            /\ probe.score.ok
            /\ [i \in 1..Len(probe.reasons.value) |->
                    probe.reasons.value[i].reason] = want
            /\ (kinds = << >>) <=> (probe.score.value = BaseScore)

-----------------------------------------------------------------------------
(* What the code does where C2, C5, C6, C9 and C10 fail *)

NonNullJob(job) == (~IsNone(job.title)) /\ ~IsNone(job.location)

\* on a job whose title and location are not null the score is the reference
\* score (under SpecScore)
ScoreIsReferenceOnNonNullJobs ==
    (probe.pc \in {"scored", "done"} /\ NonNullJob(probe.job)) =>
        probe.score = Ok(ReferenceScore(probe.job, probe.profile))

\* and the reasons mirror the conditions of the score (under SpecScore)
ReasonsMirrorScoreOnNonNullJobs ==
    NonNullJob(probe.job) => C10_ReasonsMirrorScore

\* a search_jobs invocation that returns has completed its log entry, with 0
\* results when the store is empty or the query failed on an open connection
LogEntryCompletedOnReturn ==
    (Ended("search_jobs") /\ last.outcome = "returned") =>
        LET n == Len(state.tool_logs) IN
        /\ state.tool_logs[n].status = "complete"
        /\ state.tool_logs[n].results_count = Some(Len(last.value))
        /\ (last.fault = "query_error" \/ last.db = Ok(<< >>)) =>
             state.tool_logs[n].results_count = Some(0)

\* update_user_profile overwrites the fields whose argument is truthy and
\* leaves the others, null or not, as they were
TruthyFieldsOverwrite ==
    Ended("update_user_profile") =>
        LET a == last.args
            old == PrefsOf(last.before)
            new == PrefsOf(state)
        IN  /\ state.user_profile.name
                 = IF TruthyStr(a.name) THEN a.name
                   ELSE last.before.user_profile.name
            /\ new.target_roles
                 = IF TruthySeq(a.target_roles) THEN Val(a.target_roles)
                   ELSE old.target_roles
            /\ new.locations
                 = IF TruthySeq(a.locations) THEN Val(a.locations)
                   ELSE old.locations
            /\ new.remote_preference
                 = IF TruthyStr(a.remote_preference) THEN a.remote_preference
                   ELSE old.remote_preference
            /\ new.day_rate_min
                 = IF TruthyInt(a.day_rate_min) THEN a.day_rate_min
                   ELSE old.day_rate_min
            /\ new.day_rate_max
                 = IF TruthyInt(a.day_rate_max) THEN a.day_rate_max
                   ELSE old.day_rate_max
            /\ new.availability_days_per_week
                 = IF TruthyInt(a.availability_days) THEN a.availability_days
                   ELSE old.availability_days_per_week

-----------------------------------------------------------------------------
(* Properties, continued *)

\* C11: add_skill with a level outside {beginner, intermediate, advanced,
\* expert} fails with a validation error (the ValueError of SkillLevel(level))
\* and leaves the skills list and the rest of the session state exactly as
\* they were before the call.
C11_BadLevelRejected ==
    (Ended("add_skill")
       /\ last.args.level \notin {"beginner", "intermediate", "advanced", "expert"}) =>
        /\ last.outcome = "raised"
        /\ last.value = "ValueError"
        /\ state = last.before

\* C11 witness: level "guru" for a skill the list already holds; the call
\* has raised and the entry is still the earlier one.
C11_Witness ==
    /\ Ended("add_skill")
    /\ last.args.level = "guru"
    /\ last.outcome = "raised"
    /\ Len(last.before.user_profile.skills) = 1
    /\ Lower(last.before.user_profile.skills[1].name) = Lower(last.args.skill_name)
    /\ Skills = last.before.user_profile.skills
    /\ Skills[1].level = "advanced"

\* the matches of a search are one per store record, in the store's order,
\* the jobs panel is shown, and the recorded context is that of the search
MatchesAndContextOf(args, records) ==
    /\ Len(state.job_matches) = Len(records)
    /\ \A i \in 1..Len(records) :
         /\ state.job_matches[i].job_id = [str |-> records[i].id]
         /\ Some(state.job_matches[i].title) = records[i].title
         /\ state.job_matches[i].location = records[i].location
    /\ state.show_jobs_panel
    /\ state.last_search_role = args.role
    /\ state.last_search_location = args.location
    /\ state.last_search_query =
         Some((IF IsNone(args.role) \/ Val(args.role) = << >>
               THEN S_anyRole ELSE Val(args.role))
              \o S_in
              \o (IF IsNone(args.location) \/ Val(args.location) = << >>
                  THEN S_anyLocation ELSE Val(args.location)))

\* C12: after search_jobs returns, job_matches is exactly one JobMatch per
\* record the store returned, in the store's order, with no match of an
\* earlier search left; show_jobs_panel is true; last_search_role,
\* last_search_location and last_search_query describe this search.  So the
\* recorded context and the match list are never from two different
\* searches: once an invocation has ended, a match list that is not empty is
\* the list of that invocation.
C12_MatchesAndContextAgree ==
    Ended("search_jobs") =>
        /\ last.outcome = "returned" =>
              /\ last.db.ok
              /\ MatchesAndContextOf(last.args, last.db.value)
        /\ state.job_matches # << >> => last.outcome = "returned"

\* what holds of C12: a search_jobs invocation that returns leaves the
\* matches of its own store records and its own context
MatchesReplacedOnReturn ==
    (Ended("search_jobs") /\ last.outcome = "returned") =>
        /\ last.db.ok
        /\ MatchesAndContextOf(last.args, last.db.value)

\* C13: after any sequence of update_user_profile calls with arbitrary
\* integer availability_days arguments, the profile's
\* availability_days_per_week is absent or within [1,5] (the bounds models.py
\* declares with ge=1, le=5).
C13_AvailabilityWithinBounds ==
    LET availability == PrefsOf(state).availability_days_per_week
    IN  IsNone(availability) \/ Val(availability) \in 1..5

-----------------------------------------------------------------------------
(* The store accessor on its own: search_jobs_db applied to each query *)

S_c_o == <<"c", "_", "o">>

S_percent == <<"%">>

\* role: none, empty, a tag of role_patterns in either case, a tag that is
\* not one, a tag with a LIKE wildcard; location likewise; limits around 0
\* and around the number of active rows
QueryInputs ==
    { [role |-> role, location |-> location, remote_only |-> remote_only,
       limit |-> limit, fault |-> fault, table |-> table] :
         role \in {None, Some(<< >>), Some(S_cfo), Some(S_CMO), Some(S_xyz),
                   Some(S_c_o)},
         location \in {None, Some(S_london), Some(S_York), Some(S_percent)},
         remote_only \in BOOLEAN,
         limit \in {-1, 0, 1, 2, DefaultLimit},
         fault \in Faults,
         table \in Stores }

InitQuery ==
    /\ state = CareerCoachState
    /\ inflight = << >>
    /\ last = NoCall
    /\ ncalls = 0
    /\ \E q \in QueryInputs : probe = [pc |-> "query", q |-> q]

SearchJobsDb ==
    /\ probe.pc = "query"
    /\ LET q == probe.q IN
       probe' = [pc |-> "answered", q |-> q,
                 result |-> search_jobs_db(q.role, q.location, q.remote_only,
                                           q.limit, q.fault, q.table)]
    /\ UNCHANGED <<state, inflight, last, ncalls>>

NextQuery == SearchJobsDb

SpecQuery == InitQuery /\ [][NextQuery]_vars

\* the filters of the claim, on a returned record: the title contains
\* (letter case aside) some pattern of the role's synonym set, the location
\* contains the location string, remote is true when remote_only
ContainsNoCase(sub, column) ==
    (~IsNone(column)) /\ Contains(Lower(sub), Lower(Val(column)))

RecordSatisfies(rec, q) ==
    /\ \E row \in q.table : row.id = rec.id /\ row.is_active
    /\ TruthySeq(q.role) =>
         LET synonyms == role_patterns(Upper(Val(q.role)), <<Val(q.role)>>)
         IN  \E i \in 1..Len(synonyms) : ContainsNoCase(synonyms[i], rec.title)
    /\ TruthySeq(q.location) => ContainsNoCase(Val(q.location), rec.location)
    /\ q.remote_only => rec.remote = Some(TRUE)

\* C14: for every combination of optional role, optional location,
\* remote_only and limit, every record search_jobs_db returns is flagged
\* active and satisfies each supplied filter (title contains some pattern of
\* the role's synonym set, looked up case-insensitively on the role tag with
\* fallback to the literal tag; location contains the location string;
\* remote is true when remote_only), and at most limit records are returned.
C14_ReturnedRecordsSatisfyFilters ==
    (probe.pc = "answered" /\ probe.result.ok) =>
        /\ \A i \in 1..Len(probe.result.value) :
             RecordSatisfies(probe.result.value[i], probe.q)
        /\ Len(probe.result.value) <= probe.q.limit

\* what holds of C14: with a role and a location free of the LIKE wildcards
\* % and _ and a limit that is not negative, the returned records are
\* active, satisfy the filters and number at most limit
NoWildcard(o) ==
    IsNone(o) \/ \A i \in 1..Len(Val(o)) : Val(o)[i] \notin {"%", "_"}

FiltersHoldWithoutWildcards ==
    (/\ NoWildcard(probe.q.role)
     /\ NoWildcard(probe.q.location)
     /\ probe.q.limit >= 0) => C14_ReturnedRecordsSatisfyFilters

-----------------------------------------------------------------------------
(* Properties of the onboarding counters *)

\* C15: the duplicated onboarding counters never diverge: after any sequence
\* of tool calls from a default session, the session's onboarding_step equals
\* the profile's and the session's onboarding_complete equals the profile's.
C15_CountersAgree ==
    /\ state.onboarding_step = state.user_profile.onboarding_step
    /\ state.onboarding_complete = state.user_profile.onboarding_complete

\* C15 witness: a second advance_onboarding call, which moved the step of a
\* session the first had completed; both copies have moved.
C15_Witness ==
    /\ Ended("advance_onboarding")
    /\ last.before.onboarding_complete
    /\ last.before.user_profile.onboarding_step = 5
    /\ state.onboarding_step = 2
    /\ state.user_profile.onboarding_step = 2
    /\ state.user_profile.onboarding_complete

\* a step of the orchestrator that is an advance_onboarding call asking for
\* a step >= 5
RequestsFinalStep ==
    /\ ncalls' = ncalls + 1
    /\ last'.tool = "advance_onboarding"
    /\ last'.args.step >= 5

\* C16: onboarding_complete is monotonic: once an advance_onboarding call has
\* set it, no later tool call clears it, also when a later advance_onboarding
\* moves the step below 5; it is true exactly when some earlier call asked for
\* a step >= 5 (every step keeps it as it was or is such a call, and it
\* starts false), so it does not imply onboarding_step = 5.
C16_CompleteIsMonotonic ==
    [][ /\ state'.onboarding_complete =
             (state.onboarding_complete \/ RequestsFinalStep)
        /\ state'.user_profile.onboarding_complete =
             (state.user_profile.onboarding_complete \/ RequestsFinalStep)
      ]_vars

\* C16 witness: onboarding_complete is true and the step is below 5, after
\* an advance_onboarding call that moved it there.
C16_Witness ==
    /\ Ended("advance_onboarding")
    /\ last.before.onboarding_complete
    /\ last.args.step < 5
    /\ state.onboarding_complete
    /\ state.onboarding_step < 5

-----------------------------------------------------------------------------
(* Overlapping search_jobs invocations: the orchestrator starts an          *)
(* invocation while another is suspended at its await of the store.  probe  *)
(* keeps, for the invocations in flight, the tool-log entry each appended,  *)
(* and for the ended ones that entry, the outcome and the value.            *)

\* search_jobs invocations started in one run
MaxOverlap == 2

InitOverlap ==
    /\ state = CareerCoachState
    /\ inflight = << >>
    /\ last = NoCall
    /\ ncalls = 0
    /\ probe = [pc |-> "overlap", overlapped |-> FALSE, pending |-> << >>,
                done |-> << >>]

\* search_jobs runs to its await, whether or not another is suspended
OverlapBegin ==
    /\ ncalls < MaxOverlap
    /\ \E a \in SearchInputs :
         /\ state' = search_jobs_begin(state, a)
         /\ inflight' = Append(inflight, a)
         /\ last' = [tool |-> "search_jobs", args |-> a,
                     outcome |-> "awaiting", before |-> state]
    /\ ncalls' = ncalls + 1
    /\ probe' = [probe EXCEPT
                    !.overlapped = @ \/ inflight # << >>,
                    !.pending = Append(@, Len(state.tool_logs) + 1)]

\* the store answers one of the suspended invocations, which runs to its end
OverlapFinish ==
    \E i \in DOMAIN inflight, fault \in Faults, table \in Stores :
        LET a == inflight[i]
            db == search_jobs_db(a.role, a.location, a.remote_only, a.limit,
                                 fault, table)
            r == search_jobs_finish(state, a, db)
        IN  /\ state' = r.state
            /\ inflight' = Remove(inflight, i)
            /\ last' = [tool |-> "search_jobs", args |-> a,
                        outcome |-> r.outcome, value |-> r.value,
                        before |-> state, fault |-> fault, db |-> db]
            /\ probe' = [probe EXCEPT
                           !.pending = Remove(@, i),
                           !.done = Append(@, [entry |-> probe.pending[i],
                                               outcome |-> r.outcome,
                                               value |-> r.value])]
            /\ UNCHANGED ncalls

NextOverlap ==
    \/ OverlapBegin
    \/ OverlapFinish

SpecOverlap == InitOverlap /\ [][NextOverlap]_vars

\* two invocations were started, one while the other was suspended, and both
\* have returned
BothReturned ==
    /\ probe.pc = "overlap"
    /\ probe.overlapped
    /\ inflight = << >>
    /\ Len(state.tool_logs) = 2
    /\ Len(probe.done) = 2
    /\ \A k \in 1..2 : probe.done[k].outcome = "returned"

\* C17: when two search_jobs invocations on one session overlap, then after
\* both have returned the tool log holds two entries, both with status
\* "complete", each with the result count of its own invocation, and
\* job_matches is the result of the invocation that finished last.
C17_OverlapKeepsLogsApart ==
    BothReturned =>
        /\ \A k \in 1..2 :
             LET entry == state.tool_logs[probe.done[k].entry] IN
             /\ entry.status = "complete"
             /\ entry.results_count = Some(Len(probe.done[k].value))
        /\ state.job_matches = probe.done[2].value

\* what the code does: both invocations complete the entry appended last,
\* which ends with the count of the invocation that finished last; the entry
\* appended first stays "searching"; job_matches is the last result
OverlapCompletesLastEntryTwice ==
    BothReturned =>
        /\ state.tool_logs[1].status = "searching"
        /\ state.tool_logs[1].results_count = None
        /\ state.tool_logs[2].status = "complete"
        /\ state.tool_logs[2].results_count = Some(Len(probe.done[2].value))
        /\ state.job_matches = probe.done[2].value

=============================================================================
